---- MODULE Spec2Model ----
(***************************************************************************)
(* The tool-call orchestration of the Excel chat task pane:                *)
(* ChatInterface.handleSendMessage, its embedding pre-step, the round-1    *)
(* call to the chat-completions gateway, the concurrent execution of the   *)
(* proposed tool calls, and the round-2 call that folds the results back.  *)
(* One action is one continuation of the async handler: the code that runs *)
(* between two awaits.                                                     *)
(***************************************************************************)
EXTENDS Integers, Sequences, FiniteSets, TLC

VARIABLES
  apiKey,                  \* the apiKey prop of ChatInterface
  hostSheet,               \* the host's active worksheet
  messages,                \* React state: the conversation store
  isLoading,               \* the loading flag owned by the parent
  pc,                      \* where handleSendMessage is suspended
  turnNo,                  \* number of handleSendMessage invocations so far
  text,                    \* argument of handleSendMessage
  taggedSheets,            \* argument of handleSendMessage
  tagIdx,                  \* position of the for-of loop over taggedSheets
  activeWorksheet,         \* React state: the cached active worksheet name
  currentActiveWorksheet,  \* local of handleSendMessage
  capturedMessages,        \* the messages value closed over by the handler
  capturedActiveWorksheet, \* the activeWorksheet value closed over by the handler
  base,                    \* Len(messages) when the turn started
  notices,                 \* Turns appended by the embedding handlers this turn
  embedSwallowed,          \* a per-sheet failure was swallowed by embedAllWorksheets
  embedCalls,              \* the embedding handlers called by the pre-step of this turn
  embedAll,                \* what embedAllWorksheets did in this turn
  round1View,              \* the store and the cached sheet name when round 1 was sent
  requests,                \* the chat.completions.create calls of this turn
  completion,              \* local: the round-1 response
  tasks,                   \* the promises made by toolCalls.map
  finalResponse,           \* local: the round-2 response
  thrown,                  \* what the outer catch caught in this turn
  adapterCalls,            \* map callbacks started in this turn
  orphans,                 \* host operations in flight whose turn already ended
  settled,                 \* the callbacks of this turn in the order their host operations settled
  switches,                \* worksheet activations by the user so far
  hostEffects,             \* host operations the workbook has carried out
  overlap                  \* Turns appended by a second, overlapping handleSendMessage call

vars == <<apiKey, hostSheet, messages, isLoading, pc, turnNo, text, taggedSheets,
          tagIdx, activeWorksheet, currentActiveWorksheet, capturedMessages,
          capturedActiveWorksheet, base, notices,
          embedSwallowed, embedCalls, embedAll, round1View, requests, completion, tasks,
          finalResponse, thrown, adapterCalls, orphans, settled, switches, hostEffects, overlap>>

(***************************************************************************)
(* Bounds of the model.                                                    *)
(***************************************************************************)
MaxTurns == 1
MaxBatch == 2
MaxTags == 1
MaxSwitches == 1
MaxSessionTurns == 2
MaxEmbedTags == 2

(***************************************************************************)
(* Input domains.                                                          *)
(***************************************************************************)
Sheets == {"Sheet1", "Sheet2"}
UserTexts == {"What is in A1?"}
TagNames == {"Sheet1", "workbook"}
ApiKeys == {"", "sk-user"}
DEFAULT_API_KEY == "sk-proj-default"

Undefined == "undefined"

\* The chart-type enumeration imported from ./App.
ChartType == {"ColumnClustered", "Line", "Pie"}

(***************************************************************************)
(* The catalog sent to the model and the cases of the dispatch switch.     *)
(***************************************************************************)
tools ==
  << "write_to_excel", "read_from_excel", "format_cell", "add_chart",
     "analyze_selected_range", "write_to_selected_range", "read_range",
     "add_pivot", "manage_worksheet", "filter_data", "sort_data",
     "merge_cells", "unmerge_cells", "autofit_columns", "autofit_rows",
     "apply_conditional_format", "clear_conditional_formats",
     "get_worksheet_names", "get_active_worksheet_name" >>

CatalogNames == {tools[i] : i \in 1..Len(tools)}

SwitchCases ==
  { "write_to_excel", "read_from_excel", "format_cell", "add_chart",
    "analyze_selected_range", "read_range", "add_pivot", "manage_worksheet",
    "filter_data", "sort_data", "merge_cells", "unmerge_cells",
    "autofit_columns", "autofit_rows", "apply_conditional_format",
    "clear_conditional_formats", "get_worksheet_names",
    "get_active_worksheet_name" }

\* The two cases that wrap their own try/catch around the host call.
InlineCatchCases == {"analyze_selected_range", "read_range"}

(***************************************************************************)
(* Texts.  A text is the sequence of the fragments a template literal      *)
(* concatenates.                                                           *)
(***************************************************************************)
Turn(t, u) == [text |-> t, isUser |-> u]

UserTurnText(sheet, t) == <<"[Active Worksheet: ", sheet, "] ", t>>
NoKeyText == <<"Please set your API key in the settings.">>
EmbedOkText(sheet) == <<"Embedding for worksheet \"", sheet, "\" created successfully.">>
EmbedFailText == <<"Error creating embedding. Please try again.">>
EmbedAllOkText == <<"Embeddings for all worksheets created successfully.">>
EmbedAllFailText == <<"Error creating embeddings for all worksheets. Please try again.">>
UnsupportedText == <<"I'm not sure how to perform that action.">>
UnknownErrorText == <<"An unknown error occurred.">>
GenericErrorText == <<"Sorry, I encountered an error. Please try again.">>
InvalidKeyText == <<"Invalid API key. Please check your settings.">>

\* const effectiveApiKey = apiKey || DEFAULT_API_KEY
effectiveApiKey == IF apiKey # "" THEN apiKey ELSE DEFAULT_API_KEY

(***************************************************************************)
(* Thrown values: what a rejected await hands to a catch clause.           *)
(***************************************************************************)
Err(m, st) == [isError |-> TRUE, message |-> m, hasResponse |-> FALSE, status |-> st]
NonErr(r, st) == [isError |-> FALSE, message |-> Undefined, hasResponse |-> r, status |-> st]

ConnectionError == Err("Connection error.", 0)
AuthenticationError == Err("401 Incorrect API key provided", 401)
GatewayErrors == {ConnectionError, AuthenticationError, NonErr(TRUE, 401), NonErr(TRUE, 500)}
HostError == Err("The requested resource doesn't exist.", 0)
HostErrors == {HostError, NonErr(FALSE, 0)}
SyntaxError == Err("Unexpected end of JSON input", 0)
EmbedErrors == {ConnectionError, NonErr(FALSE, 0)}

\* The message the outer catch of handleSendMessage shows.
errorMessage(error) ==
  IF error.isError THEN <<"Error: ", error.message>>
  ELSE IF error.hasResponse /\ error.status = 401 THEN InvalidKeyText
  ELSE GenericErrorText

(***************************************************************************)
(* Tool calls.                                                             *)
(***************************************************************************)
ArgsEmpty == "{}"
ArgsMalformed == "{"
ArgsChart == "{\"dataRange\":\"A1:B5\",\"chartType\":\"Pie\"}"
ArgsChartNoRange == "{\"chartType\":\"Pie\"}"
ArgsChartBadType == "{\"chartType\":\"Donut3D\"}"

\* JSON.parse of toolCall.function.arguments, for the argument texts above.
JSONParse(raw) ==
  CASE raw = ArgsEmpty -> [ok |-> TRUE, dataRange |-> Undefined, chartType |-> Undefined]
    [] raw = ArgsChart -> [ok |-> TRUE, dataRange |-> "A1:B5", chartType |-> "Pie"]
    [] raw = ArgsChartNoRange -> [ok |-> TRUE, dataRange |-> Undefined, chartType |-> "Pie"]
    [] raw = ArgsChartBadType -> [ok |-> TRUE, dataRange |-> Undefined, chartType |-> "Donut3D"]
    [] OTHER -> [ok |-> FALSE, dataRange |-> Undefined, chartType |-> Undefined]

\* The (name, arguments) pairs the model proposes.
InvocationKinds ==
  { <<"get_worksheet_names", ArgsEmpty>>,
    <<"read_range", ArgsEmpty>>,
    <<"read_range", ArgsMalformed>>,
    <<"analyze_selected_range", ArgsEmpty>>,
    <<"add_chart", ArgsChart>>,
    <<"add_chart", ArgsChartNoRange>>,
    <<"add_chart", ArgsChartBadType>>,
    <<"write_to_selected_range", ArgsEmpty>>,
    <<"delete_workbook", ArgsEmpty>> }

\* The ids of a batch of n calls: unique within the batch, and not the
\* positions of the calls.
IdSchemes(n) == { [i \in 1..n |-> n + 1 - i] }

Batches(maxLen) ==
  UNION { { [i \in 1..n |-> [id |-> ids[i],
                         function |-> [name |-> k[i][1], arguments |-> k[i][2]]]] :
              k \in [1..n -> InvocationKinds], ids \in IdSchemes(n) } : n \in 0..maxLen }

\* One promise of toolCalls.map: its state, the record it returns, and
\* whether the callback's try block threw.
Task(st, id, c, th) == [state |-> st, tool_call_id |-> id, content |-> c, threw |-> th]

\* The text a case of the switch produces when its host operation succeeds.
SuccessText(name, args) ==
  CASE name = "add_chart" ->
         <<"Added ", args.chartType, " chart using data from range ", args.dataRange>>
    [] name = "read_range" -> <<"The values in range ", "A1:B2", " are:\n", "[[1,2],[3,4]]">>
    [] name = "analyze_selected_range" ->
         <<"Analysis of selected range ", "A1:B2", ":\n", "summary">>
    [] name = "get_worksheet_names" ->
         <<"The worksheets in this workbook are: ", "Sheet1, Sheet2">>
    [] name = "get_active_worksheet_name" ->
         <<"The currently active worksheet is: ", hostSheet>>
    [] OTHER -> <<"done: ", name>>

\* The text for a host operation that rejected with `error`.
FailureText(name, error) ==
  IF name \in InlineCatchCases
    THEN << (IF name = "read_range" THEN "Failed to read range. "
                                    ELSE "Failed to analyze the selected range. "),
            (IF error.isError THEN error.message ELSE "Unknown error occurred") >>
    ELSE IF error.isError THEN <<"Error: ", error.message>> ELSE UnknownErrorText

\* The add_chart case with its two checks in the other order.
SyncStep_RangeFirst(toolCall) ==
  LET args == JSONParse(toolCall.function.arguments)
      name == toolCall.function.name
  IN IF ~args.ok THEN Task("rejected", toolCall.id, <<>>, FALSE)
     ELSE IF name \notin SwitchCases THEN Task("done", toolCall.id, UnsupportedText, FALSE)
     ELSE IF name = "add_chart" /\ args.dataRange = Undefined
       THEN Task("done", toolCall.id,
                 <<"Error: ", "Data range is required to create a chart.">>, TRUE)
     ELSE IF name = "add_chart" /\ args.chartType \notin ChartType
       THEN Task("done", toolCall.id,
                 <<"Error: ", "Invalid chart type: ", args.chartType>>, TRUE)
     ELSE Task("inflight", toolCall.id, <<>>, FALSE)

\* The part of the map callback that runs before its first await:
\* JSON.parse (outside the try), the switch, and the checks of add_chart.
SyncStep(toolCall) ==
  LET args == JSONParse(toolCall.function.arguments)
      name == toolCall.function.name
  IN IF ~args.ok THEN Task("rejected", toolCall.id, <<>>, FALSE)
     ELSE IF name \notin SwitchCases THEN Task("done", toolCall.id, UnsupportedText, FALSE)
     ELSE IF name = "add_chart" /\ args.chartType \notin ChartType
       THEN Task("done", toolCall.id,
                 <<"Error: ", "Invalid chart type: ", args.chartType>>, TRUE)
     ELSE IF name = "add_chart" /\ args.dataRange = Undefined
       THEN Task("done", toolCall.id,
                 <<"Error: ", "Data range is required to create a chart.">>, TRUE)
     ELSE Task("inflight", toolCall.id, <<>>, FALSE)

\* The two read-style cases without their inline try/catch and outside the
\* callback's try: the rejection of the host call leaves the callback.
SettleStep_Propagates(toolCall, ok, error) ==
  LET args == JSONParse(toolCall.function.arguments)
      name == toolCall.function.name
  IN IF ~ok /\ name \in InlineCatchCases
       THEN Task("rejected", toolCall.id, <<>>, TRUE)
       ELSE Task("done", toolCall.id,
                 IF ok THEN SuccessText(name, args) ELSE FailureText(name, error), ~ok)

\* The rest of the callback, once the host operation settled: fulfilled
\* (ok) or rejected with error.
SettleStep(toolCall, ok, error) ==
  LET args == JSONParse(toolCall.function.arguments)
      name == toolCall.function.name
  IN Task("done", toolCall.id,
          IF ok THEN SuccessText(name, args) ELSE FailureText(name, error), ~ok)

(***************************************************************************)
(* Gateway requests and responses.                                         *)
(***************************************************************************)
Message(r, c, id, tc) == [role |-> r, content |-> c, tool_call_id |-> id, tool_calls |-> tc]

SystemPrompt1(sheet) ==
  <<"You are a helpful assistant that interacts with Excel. The currently active worksheet is \"",
    sheet, "\". Assure you use the functions in the appropriate order.">>
SystemPrompt2(sheet) ==
  <<"You are a helpful assistant that interacts with Excel. The currently active worksheet is \"",
    sheet, "\".">>

\* messages.map(msg => ({role: msg.isUser ? "user" : "assistant", content: msg.text}))
History(msgs) ==
  [i \in 1..Len(msgs) |->
     Message(IF msgs[i].isUser THEN "user" ELSE "assistant", msgs[i].text, 0, <<>>)]

\* What the component shows when a request is sent: the length of the
\* store and the cached sheet name.
View(store, sheet) == [store |-> Len(store), sheet |-> sheet]
NoView == [store |-> 0, sheet |-> Undefined]

\* The argument of the round-1 chat.completions.create call.
Round1Request ==
  [messages |-> <<Message("system", SystemPrompt1(capturedActiveWorksheet), 0, <<>>)>>
                \o History(capturedMessages)
                \o <<Message("user", <<text>>, 0, <<>>)>>,
   tools |-> tools]

\* The id of a result taken from its position in the batch.
ToolResults_ByPosition(ts) ==
  [i \in 1..Len(ts) |-> Message("tool", ts[i].content, i, <<>>)]

\* await Promise.all(...): the records the callbacks returned, in the order
\* of toolCalls.
ToolResults(ts) ==
  [i \in 1..Len(ts) |-> Message("tool", ts[i].content, ts[i].tool_call_id, <<>>)]

\* completion.choices[0].message, as resubmitted in round 2.
AssistantMessage(c) ==
  Message("assistant", c.content, 0, IF c.hasToolCalls THEN c.tool_calls ELSE <<>>)

\* The catalog of round 2 reduced to the capabilities round 1 proposed.
completionPayload_FilteredTools(c, ts) ==
  [messages |-> <<Message("system", SystemPrompt2(capturedActiveWorksheet), 0, <<>>)>>
                \o History(capturedMessages)
                \o <<Message("user", <<text>>, 0, <<>>)>>
                \o <<AssistantMessage(c)>>
                \o ToolResults(ts),
   tools |-> SelectSeq(tools, LAMBDA n : \E i \in 1..Len(c.tool_calls) :
                                          c.tool_calls[i].function.name = n)]

\* The tool results spread before the rest of the transcript.
completionPayload_ResultsFirst(c, ts) ==
  [messages |-> <<Message("system", SystemPrompt2(capturedActiveWorksheet), 0, <<>>)>>
                \o ToolResults(ts)
                \o History(capturedMessages)
                \o <<Message("user", <<text>>, 0, <<>>)>>
                \o <<AssistantMessage(c)>>,
   tools |-> tools]

\* The payload built from the store and the cached sheet name as they are
\* when round 2 is sent.
completionPayload_LiveStore(c, ts) ==
  [messages |-> <<Message("system", SystemPrompt2(activeWorksheet), 0, <<>>)>>
                \o History(messages)
                \o <<Message("user", <<text>>, 0, <<>>)>>
                \o <<AssistantMessage(c)>>
                \o ToolResults(ts),
   tools |-> tools]

\* completionPayload
completionPayload(c, ts) ==
  [messages |-> <<Message("system", SystemPrompt2(capturedActiveWorksheet), 0, <<>>)>>
                \o History(capturedMessages)
                \o <<Message("user", <<text>>, 0, <<>>)>>
                \o <<AssistantMessage(c)>>
                \o ToolResults(ts),
   tools |-> tools]

Response(ch, c, h, tc) == [hasChoice |-> ch, content |-> c, hasToolCalls |-> h, tool_calls |-> tc]
NoCompletion == Response(FALSE, <<>>, FALSE, <<>>)

\* What round 1 can return: no choice, or a message with content, with
\* tool_calls (an array, possibly empty), with both or with neither.
Responses1 ==
  {NoCompletion}
  \cup {Response(TRUE, c, FALSE, <<>>) : c \in {<<>>, <<"Hello! How can I help?">>}}
  \cup {Response(TRUE, c, TRUE, b) : c \in {<<>>, <<"Let me check.">>}, b \in Batches(MaxBatch)}

\* What round 2 can return.
Responses2 ==
  {NoCompletion}
  \cup {Response(TRUE, c, FALSE, <<>>) : c \in {<<>>, <<"Here is the result.">>}}
  \cup {Response(TRUE, c, TRUE, <<[id |-> 1, function |-> [name |-> "read_range", arguments |-> ArgsEmpty]]>>) :
          c \in {<<>>, <<"Here is the result.">>}}

TagLists == UNION {[1..n -> TagNames] : n \in 0..MaxTags}

(***************************************************************************)
(* The embedding collaborator (embedding_operations.ts) and the calls the  *)
(* pre-step makes to the two embedding handlers.                           *)
(***************************************************************************)
\* What getWorksheetNames() returns, and the sheets whose content or
\* embedding request fails.
WorksheetNames == <<"Sheet1", "Sheet2">>
SheetFailures == {{}, {"Sheet1"}}

\* The vector getEmbedding returns for the content of a sheet.
EmbeddingOf(name) == <<"embedding", name>>

NoEmbedAll ==
  [called |-> FALSE, names |-> <<>>, failed |-> {}, attempted |-> <<>>, embeddings |-> <<>>]

\* The loop leaves at the first sheet that fails.
RECURSIVE embedAllWorksheets_StopsAtFailure(_, _, _)
embedAllWorksheets_StopsAtFailure(names, failed, acc) ==
  IF names = <<>> \/ Head(names) \in failed
    THEN [acc EXCEPT !.attempted = IF names = <<>> THEN @ ELSE Append(@, Head(names))]
    ELSE embedAllWorksheets_StopsAtFailure(Tail(names), failed,
           [acc EXCEPT !.attempted = Append(@, Head(names)),
                       !.embeddings = (Head(names) :> EmbeddingOf(Head(names))) @@ @])

\* embedAllWorksheets: for (const name of worksheetNames) with the try/catch
\* inside the loop.  attempted lists the getCurrentSheetContent calls,
\* embeddings is the map returned.
RECURSIVE embedAllWorksheets(_, _, _)
embedAllWorksheets(names, failed, acc) ==
  IF names = <<>>
    THEN acc
    ELSE embedAllWorksheets(Tail(names), failed,
           [acc EXCEPT !.attempted = Append(@, Head(names)),
                       !.embeddings = IF Head(names) \in failed
                                        THEN @
                                        ELSE (Head(names) :> EmbeddingOf(Head(names))) @@ @])

\* One call of handleEmbedAllWorksheets() or of handleEmbedding(sheetName).
EmbedCall(handler, sheetName, state) ==
  [handler |-> handler, sheetName |-> sheetName, state |-> state]

Includes(list, x) == \E i \in 1..Len(list) : list[i] = x

\* The call the pre-step makes at position i of its loop.
StartEmbedding(tags, i) ==
  IF Includes(tags, "workbook")
    THEN EmbedCall("handleEmbedAllWorksheets", Undefined, "pending")
    ELSE EmbedCall("handleEmbedding", tags[i], "pending")

\* The call in flight has settled.
FinishEmbedding(calls, state) ==
  [calls EXCEPT ![Len(calls)].state = state]

(***************************************************************************)
(* The state after construction.                                           *)
(***************************************************************************)
Init ==
  /\ apiKey \in ApiKeys
  /\ hostSheet = "Sheet1"
  /\ messages = <<>>
  /\ isLoading = FALSE
  /\ pc = "idle"
  /\ turnNo = 0
  /\ text = Undefined
  /\ taggedSheets = <<>>
  /\ tagIdx = 1
  /\ activeWorksheet = ""
  /\ currentActiveWorksheet = Undefined
  /\ capturedMessages = <<>>
  /\ capturedActiveWorksheet = ""
  /\ base = 0
  /\ notices = 0
  /\ embedSwallowed = FALSE
  /\ embedCalls = <<>>
  /\ embedAll = NoEmbedAll
  /\ round1View = NoView
  /\ requests = <<>>
  /\ completion = NoCompletion
  /\ tasks = <<>>
  /\ finalResponse = NoCompletion
  /\ thrown = <<>>
  /\ adapterCalls = 0
  /\ orphans = 0
  /\ settled = <<>>
  /\ switches = 0
  /\ hostEffects = 0
  /\ overlap = 0

hostVars == <<apiKey, hostSheet, activeWorksheet, switches, hostEffects, overlap>>
callVars == <<turnNo, text, taggedSheets, capturedMessages, capturedActiveWorksheet, base>>
argVars == <<callVars, round1View>>
embedVars == <<tagIdx, notices, embedSwallowed, embedCalls, embedAll>>
toolVars == <<completion, tasks, adapterCalls, orphans, settled>>

\* Promise.all replaced by a race: the first settled callback is enough.
InFlight_Race(ts) ==
  IF \E i \in 1..Len(ts) : ts[i].state = "done"
    THEN {}
    ELSE {i \in 1..Len(ts) : ts[i].state = "inflight"}

\* The callbacks Promise.all is still waiting for.
InFlight(ts) == {i \in 1..Len(ts) : ts[i].state = "inflight"}
Rejected(ts) == {i \in 1..Len(ts) : ts[i].state = "rejected"}

\* if (completion?.choices[0]?.message?.tool_calls): any array is truthy.
ProposesTools_AnyMessage(r) == r.hasChoice

ProposesTools(r) == r.hasToolCalls

\* The error Turn appended to the messages value the handler closed over
\* instead of through a functional update.
Catch_StaleClosure(pre, error, where) ==
  /\ messages' = capturedMessages \o pre \o <<Turn(errorMessage(error), FALSE)>>
  /\ thrown' = <<error, where>>
  /\ isLoading' = FALSE
  /\ pc' = "idle"

CatchSilent(pre, error, where) ==
  /\ messages' = messages \o pre
  /\ thrown' = <<error, where>>
  /\ isLoading' = FALSE
  /\ pc' = "idle"

\* The outer catch and finally of handleSendMessage, after the Turns in
\* `pre` were appended: one error Turn, loading flag reset.
Catch(pre, error, where) ==
  /\ messages' = messages \o pre \o <<Turn(errorMessage(error), FALSE)>>
  /\ thrown' = <<error, where>>
  /\ isLoading' = FALSE
  /\ pc' = "idle"

\* handleSendMessage is called: setIsLoading(true), then the await of
\* getActiveWorksheetName().
Entry(t, tags) ==
  /\ pc = "idle"
  /\ turnNo' = turnNo + 1
  /\ isLoading' = TRUE
  /\ text' = t
  /\ taggedSheets' = tags
  /\ tagIdx' = 1
  /\ currentActiveWorksheet' = Undefined
  /\ capturedMessages' = messages
  /\ capturedActiveWorksheet' = activeWorksheet
  /\ base' = Len(messages)
  /\ notices' = 0
  /\ embedSwallowed' = FALSE
  /\ embedCalls' = <<>>
  /\ embedAll' = NoEmbedAll
  /\ round1View' = NoView
  /\ requests' = <<>>
  /\ completion' = NoCompletion
  /\ tasks' = <<>>
  /\ finalResponse' = NoCompletion
  /\ thrown' = <<>>
  /\ adapterCalls' = 0
  /\ settled' = <<>>
  /\ pc' = "activeSheet"
  /\ UNCHANGED <<hostVars, messages, orphans>>

\* The user sends a message (at most MaxTurns of them).
SendMessage(t, tags) ==
  /\ turnNo < MaxTurns
  /\ Entry(t, tags)

\* The user Turn appended to the messages value the handler closed over
\* instead of through a functional update.
ActiveSheetResolves_StaleClosure ==
  /\ pc = "activeSheet"
  /\ currentActiveWorksheet' = hostSheet
  /\ LET userTurn == Turn(UserTurnText(hostSheet, text), TRUE)
     IN IF effectiveApiKey = ""
          THEN /\ messages' = capturedMessages \o <<userTurn, Turn(NoKeyText, FALSE)>>
               /\ isLoading' = FALSE
               /\ pc' = "idle"
          ELSE /\ messages' = Append(capturedMessages, userTurn)
               /\ isLoading' = isLoading
               /\ pc' = IF taggedSheets = <<>> THEN "selection" ELSE "embed"
  /\ embedCalls' = IF effectiveApiKey = "" \/ taggedSheets = <<>>
                     THEN embedCalls
                     ELSE <<StartEmbedding(taggedSheets, 1)>>
  /\ UNCHANGED <<hostVars, argVars, tagIdx, notices, embedSwallowed, embedAll, toolVars,
                 requests, finalResponse, thrown>>

\* getActiveWorksheetName() resolved: the user Turn, the credential guard,
\* and the start of the embedding pre-step or of getSelectedRangeInfo().
ActiveSheetResolves ==
  /\ pc = "activeSheet"
  /\ currentActiveWorksheet' = hostSheet
  /\ LET userTurn == Turn(UserTurnText(hostSheet, text), TRUE)
     IN IF effectiveApiKey = ""
          THEN /\ messages' = messages \o <<userTurn, Turn(NoKeyText, FALSE)>>
               /\ isLoading' = FALSE
               /\ pc' = "idle"
          ELSE /\ messages' = Append(messages, userTurn)
               /\ isLoading' = isLoading
               /\ pc' = IF taggedSheets = <<>> THEN "selection" ELSE "embed"
  /\ embedCalls' = IF effectiveApiKey = "" \/ taggedSheets = <<>>
                     THEN embedCalls
                     ELSE <<StartEmbedding(taggedSheets, 1)>>
  /\ UNCHANGED <<hostVars, argVars, tagIdx, notices, embedSwallowed, embedAll, toolVars,
                 requests, finalResponse, thrown>>

\* getActiveWorksheetName() rejected: the await is outside the try, the
\* handler's promise rejects and nothing else of it runs.
ActiveSheetRejects(error) ==
  /\ pc = "activeSheet"
  /\ thrown' = <<error, "unhandled">>
  /\ pc' = "idle"
  /\ UNCHANGED <<hostVars, argVars, embedVars, toolVars, messages, isLoading,
                 currentActiveWorksheet, requests, finalResponse>>

\* handleEmbedding(sheetName): embedWorksheet resolved.
EmbeddingResolves ==
  /\ pc = "embed"
  /\ ~Includes(taggedSheets, "workbook")
  /\ messages' = Append(messages, Turn(EmbedOkText(taggedSheets[tagIdx]), FALSE))
  /\ notices' = notices + 1
  /\ tagIdx' = tagIdx + 1
  /\ embedCalls' = IF tagIdx = Len(taggedSheets)
                     THEN FinishEmbedding(embedCalls, "resolved")
                     ELSE Append(FinishEmbedding(embedCalls, "resolved"),
                                 StartEmbedding(taggedSheets, tagIdx + 1))
  /\ pc' = IF tagIdx = Len(taggedSheets) THEN "selection" ELSE "embed"
  /\ UNCHANGED <<hostVars, argVars, toolVars, isLoading, currentActiveWorksheet,
                 embedSwallowed, embedAll, requests, finalResponse, thrown>>

\* handleEmbedding(sheetName): embedWorksheet rejected; the handler appends
\* its notice and rethrows into the outer catch.
EmbeddingRejects(error) ==
  /\ pc = "embed"
  /\ ~Includes(taggedSheets, "workbook")
  /\ Catch(<<Turn(EmbedFailText, FALSE)>>, error, "embed")
  /\ notices' = notices + 1
  /\ embedCalls' = FinishEmbedding(embedCalls, "rejected")
  /\ UNCHANGED <<hostVars, argVars, toolVars, currentActiveWorksheet, tagIdx,
                 embedSwallowed, embedAll, requests, finalResponse>>

\* handleEmbedAllWorksheets(): embedAllWorksheets resolved; the host
\* returned names and the sheets in failed could not be embedded, which
\* embedAllWorksheets swallows.
EmbedAllResolves(names, failed) ==
  /\ pc = "embed"
  /\ Includes(taggedSheets, "workbook")
  /\ embedAll' = embedAllWorksheets(names, failed,
                    [NoEmbedAll EXCEPT !.called = TRUE, !.names = names, !.failed = failed])
  /\ messages' = Append(messages, Turn(EmbedAllOkText, FALSE))
  /\ notices' = notices + 1
  /\ embedSwallowed' = \E i \in 1..Len(names) : names[i] \in failed
  /\ embedCalls' = FinishEmbedding(embedCalls, "resolved")
  /\ pc' = "selection"
  /\ UNCHANGED <<hostVars, argVars, toolVars, isLoading, currentActiveWorksheet,
                 tagIdx, requests, finalResponse, thrown>>

\* handleEmbedAllWorksheets(): embedAllWorksheets rejected (its
\* getWorksheetNames() did); the handler appends its notice and rethrows.
EmbedAllRejects(error) ==
  /\ pc = "embed"
  /\ Includes(taggedSheets, "workbook")
  /\ Catch(<<Turn(EmbedAllFailText, FALSE)>>, error, "embed")
  /\ notices' = notices + 1
  /\ embedCalls' = FinishEmbedding(embedCalls, "rejected")
  /\ UNCHANGED <<hostVars, argVars, toolVars, currentActiveWorksheet, tagIdx,
                 embedSwallowed, embedAll, requests, finalResponse>>

\* getSelectedRangeInfo() resolved: the catalog is built and round 1 is sent.
SelectionResolves ==
  /\ pc = "selection"
  /\ requests' = Append(requests, Round1Request)
  /\ round1View' = View(messages, activeWorksheet)
  /\ pc' = "round1"
  /\ UNCHANGED <<hostVars, callVars, embedVars, toolVars, messages, isLoading,
                 currentActiveWorksheet, finalResponse, thrown>>

\* getSelectedRangeInfo() rejected.
SelectionRejects(error) ==
  /\ pc = "selection"
  /\ Catch(<<>>, error, "selection")
  /\ UNCHANGED <<hostVars, argVars, embedVars, toolVars, currentActiveWorksheet,
                 requests, finalResponse>>

\* The rejection handled without the finally block.
Round1Rejects_NoFinally(error) ==
  /\ pc = "round1"
  /\ messages' = Append(messages, Turn(errorMessage(error), FALSE))
  /\ thrown' = <<error, "round1">>
  /\ pc' = "idle"
  /\ UNCHANGED <<hostVars, argVars, embedVars, toolVars, currentActiveWorksheet,
                 requests, finalResponse, isLoading>>

\* The round-1 call rejected.
Round1Rejects(error) ==
  /\ pc = "round1"
  /\ Catch(<<>>, error, "round1")
  /\ UNCHANGED <<hostVars, argVars, embedVars, toolVars, currentActiveWorksheet,
                 requests, finalResponse>>

\* The round-2 call is sent with the results ts of the batch.
SendRound2(c, ts) ==
  /\ requests' = Append(requests, completionPayload(c, ts))
  /\ pc' = "round2"
  /\ UNCHANGED <<messages, isLoading, thrown>>

\* The text of a response that also proposes invocations appended as a
\* Turn before the batch runs.
Round1Resolves_AppendsContent(r) ==
  /\ pc = "round1"
  /\ completion' = r
  /\ IF ProposesTools(r)
       THEN LET ts == [i \in 1..Len(r.tool_calls) |-> SyncStep(r.tool_calls[i])]
            IN /\ tasks' = ts
               /\ adapterCalls' = Len(ts)
               /\ IF Rejected(ts) # {}
                    THEN /\ Catch(<<>>, SyntaxError, "parse")
                         /\ orphans' = orphans + Cardinality(InFlight(ts))
                         /\ UNCHANGED requests
                    ELSE /\ orphans' = orphans
                         /\ IF InFlight(ts) = {}
                              THEN SendRound2(r, ts)
                              ELSE /\ pc' = "tools"
                                   /\ messages' = IF r.content # <<>>
                                                    THEN Append(messages, Turn(r.content, FALSE))
                                                    ELSE messages
                                   /\ UNCHANGED <<isLoading, thrown, requests>>
       ELSE /\ messages' = IF r.content # <<>>
                             THEN Append(messages, Turn(r.content, FALSE))
                             ELSE messages
            /\ isLoading' = FALSE
            /\ pc' = "idle"
            /\ UNCHANGED <<tasks, adapterCalls, orphans, requests, thrown>>
  /\ UNCHANGED <<hostVars, argVars, embedVars, currentActiveWorksheet, finalResponse, settled>>

\* The round-1 call resolved with response r.  With tool_calls (any array
\* is truthy) every callback of toolCalls.map runs up to its first await;
\* a callback whose JSON.parse threw has rejected, Promise.all rejects with
\* it and the outer catch runs while the other host operations are still
\* in flight.  Without tool_calls, content is appended if there is any.
Round1Resolves(r) ==
  /\ pc = "round1"
  /\ completion' = r
  /\ IF ProposesTools(r)
       THEN LET ts == [i \in 1..Len(r.tool_calls) |-> SyncStep(r.tool_calls[i])]
            IN /\ tasks' = ts
               /\ adapterCalls' = Len(ts)
               /\ IF Rejected(ts) # {}
                    THEN /\ Catch(<<>>, SyntaxError, "parse")
                         /\ orphans' = orphans + Cardinality(InFlight(ts))
                         /\ UNCHANGED requests
                    ELSE /\ orphans' = orphans
                         /\ IF InFlight(ts) = {}
                              THEN SendRound2(r, ts)
                              ELSE /\ pc' = "tools"
                                   /\ UNCHANGED <<messages, isLoading, thrown, requests>>
       ELSE /\ messages' = IF r.content # <<>>
                             THEN Append(messages, Turn(r.content, FALSE))
                             ELSE messages
            /\ isLoading' = FALSE
            /\ pc' = "idle"
            /\ UNCHANGED <<tasks, adapterCalls, orphans, requests, thrown>>
  /\ UNCHANGED <<hostVars, argVars, embedVars, currentActiveWorksheet, finalResponse, settled>>

\* The host operation of callback i settled; when it was the last one,
\* Promise.all resolves and round 2 is sent.
ToolSettles(i, ok, error) ==
  /\ pc = "tools"
  /\ i \in InFlight(tasks)
  /\ LET ts == [tasks EXCEPT ![i] = SettleStep(completion.tool_calls[i], ok, error)]
     IN /\ tasks' = ts
        /\ settled' = Append(settled, i)
        /\ IF InFlight(ts) = {}
             THEN SendRound2(completion, ts)
             ELSE UNCHANGED <<messages, isLoading, thrown, requests, pc>>
  /\ hostEffects' = IF ok THEN hostEffects + 1 ELSE hostEffects
  /\ UNCHANGED <<apiKey, hostSheet, activeWorksheet, switches, overlap, argVars, embedVars,
                 currentActiveWorksheet, completion, adapterCalls, orphans, finalResponse>>

\* The error path compensating the host operations the batch carried out.
Round2Rejects_Rollback(error) ==
  /\ pc = "round2"
  /\ Catch(<<>>, error, "round2")
  /\ hostEffects' = hostEffects
                      - Cardinality({k \in 1..Len(settled) : ~tasks[settled[k]].threw})
  /\ UNCHANGED <<apiKey, hostSheet, activeWorksheet, switches, overlap, argVars,
                 embedVars, toolVars, currentActiveWorksheet, requests, finalResponse>>

\* The rejection reported by an inner handler that rethrows, as the
\* embedding handlers do: two error Turns.
Round2Rejects_Rethrown(error) ==
  /\ pc = "round2"
  /\ Catch(<<Turn(errorMessage(error), FALSE)>>, error, "round2")
  /\ UNCHANGED <<hostVars, argVars, embedVars, toolVars, currentActiveWorksheet,
                 requests, finalResponse>>

\* The rejection swallowed: no Turn is appended.
Round2Rejects_Silent(error) ==
  /\ pc = "round2"
  /\ CatchSilent(<<>>, error, "round2")
  /\ UNCHANGED <<hostVars, argVars, embedVars, toolVars, currentActiveWorksheet,
                 requests, finalResponse>>

\* The round-2 call rejected.
Round2Rejects(error) ==
  /\ pc = "round2"
  /\ Catch(<<>>, error, "round2")
  /\ UNCHANGED <<hostVars, argVars, embedVars, toolVars, currentActiveWorksheet,
                 requests, finalResponse>>

\* The content appended without the test that there is any.
Round2Resolves_Unconditional(r) ==
  /\ pc = "round2"
  /\ finalResponse' = r
  /\ messages' = Append(messages, Turn(r.content, FALSE))
  /\ isLoading' = FALSE
  /\ pc' = "idle"
  /\ UNCHANGED <<hostVars, argVars, embedVars, toolVars, currentActiveWorksheet,
                 requests, thrown>>

\* The tool calls of round 2 dispatched like those of round 1, and their
\* results sent in another call.
Round2Resolves_Chained(r) ==
  /\ pc = "round2"
  /\ finalResponse' = r
  /\ messages' = IF r.content # <<>> THEN Append(messages, Turn(r.content, FALSE))
                                     ELSE messages
  /\ adapterCalls' = adapterCalls + (IF r.hasToolCalls THEN Len(r.tool_calls) ELSE 0)
  /\ requests' = IF r.hasToolCalls THEN Append(requests, completionPayload(r, <<>>))
                                   ELSE requests
  /\ isLoading' = FALSE
  /\ pc' = "idle"
  /\ UNCHANGED <<hostVars, argVars, embedVars, completion, tasks, orphans, settled,
                 currentActiveWorksheet, thrown>>

\* The round-2 call resolved with response r: only its content is used.
Round2Resolves(r) ==
  /\ pc = "round2"
  /\ finalResponse' = r
  /\ messages' = IF r.content # <<>> THEN Append(messages, Turn(r.content, FALSE))
                                     ELSE messages
  /\ isLoading' = FALSE
  /\ pc' = "idle"
  /\ UNCHANGED <<hostVars, argVars, embedVars, toolVars, currentActiveWorksheet,
                 requests, thrown>>

\* A host operation started by a turn that already ended settles, carried
\* out or failed.
OrphanSettles ==
  /\ orphans > 0
  /\ orphans' = orphans - 1
  /\ hostEffects' \in {hostEffects, hostEffects + 1}
  /\ UNCHANGED <<apiKey, hostSheet, activeWorksheet, switches, overlap,
                 argVars, embedVars, messages, isLoading, pc,
                 currentActiveWorksheet, requests, completion, tasks, finalResponse,
                 thrown, adapterCalls, settled>>

\* The user activates another worksheet in the host.
HostSwitchSheet(s) ==
  /\ s # hostSheet
  /\ switches < MaxSwitches
  /\ switches' = switches + 1
  /\ hostSheet' = s
  /\ UNCHANGED <<apiKey, activeWorksheet, hostEffects, overlap, argVars, embedVars, toolVars, messages,
                 isLoading, pc, currentActiveWorksheet, requests, finalResponse, thrown>>

\* updateActiveWorksheet: on mount and on the ActiveViewChanged event.
updateActiveWorksheet ==
  /\ activeWorksheet # hostSheet
  /\ activeWorksheet' = hostSheet
  /\ UNCHANGED <<apiKey, hostSheet, switches, hostEffects, overlap, argVars, embedVars, toolVars, messages,
                 isLoading, pc, currentActiveWorksheet, requests, finalResponse, thrown>>

Next ==
  \/ \E t \in UserTexts, tags \in TagLists : SendMessage(t, tags)
  \/ ActiveSheetResolves
  \/ \E e \in HostErrors : ActiveSheetRejects(e)
  \/ EmbeddingResolves
  \/ \E e \in EmbedErrors : EmbeddingRejects(e)
  \/ \E f \in SheetFailures : EmbedAllResolves(WorksheetNames, f)
  \/ \E e \in HostErrors : EmbedAllRejects(e)
  \/ SelectionResolves
  \/ \E e \in HostErrors : SelectionRejects(e)
  \/ \E e \in GatewayErrors : Round1Rejects(e)
  \/ \E r \in Responses1 : Round1Resolves(r)
  \/ \E i \in 1..Len(tasks) : ToolSettles(i, TRUE, HostError)
  \/ \E i \in 1..Len(tasks), e \in HostErrors : ToolSettles(i, FALSE, e)
  \/ \E e \in GatewayErrors : Round2Rejects(e)
  \/ \E r \in Responses2 : Round2Resolves(r)
  \/ OrphanSettles
  \/ \E s \in Sheets : HostSwitchSheet(s)
  \/ updateActiveWorksheet

Spec == Init /\ [][Next]_vars

(***************************************************************************)
(* A session of several turns.  The handler is the same; the inputs are    *)
(* narrower (a configured key, batches of at most one call, no worksheet   *)
(* activation) so that MaxSessionTurns turns, each with every outcome of   *)
(* the pre-step, of round 1, of the host operation and of round 2, can be  *)
(* explored.                                                               *)
(***************************************************************************)
SessionInit == Init /\ apiKey = "sk-user"

SessionResponses1 ==
  {NoCompletion, Response(TRUE, <<"Hello! How can I help?">>, FALSE, <<>>)}
  \cup {Response(TRUE, <<>>, TRUE, b) : b \in Batches(1)}

SessionSendMessage(t, tags) ==
  /\ turnNo < MaxSessionTurns
  /\ Entry(t, tags)

\* The continuations of a call in flight, and the mount effect.
SessionSteps ==
  \/ ActiveSheetResolves
  \/ \E e \in HostErrors : ActiveSheetRejects(e)
  \/ EmbeddingResolves
  \/ \E e \in EmbedErrors : EmbeddingRejects(e)
  \/ \E f \in SheetFailures : EmbedAllResolves(WorksheetNames, f)
  \/ \E e \in HostErrors : EmbedAllRejects(e)
  \/ SelectionResolves
  \/ \E e \in HostErrors : SelectionRejects(e)
  \/ \E e \in GatewayErrors : Round1Rejects(e)
  \/ \E r \in SessionResponses1 : Round1Resolves(r)
  \/ \E i \in 1..Len(tasks) : ToolSettles(i, TRUE, HostError)
  \/ \E i \in 1..Len(tasks), e \in HostErrors : ToolSettles(i, FALSE, e)
  \/ \E e \in GatewayErrors : Round2Rejects(e)
  \/ \E r \in Responses2 : Round2Resolves(r)
  \/ updateActiveWorksheet

SessionNext ==
  \/ \E t \in UserTexts, tags \in TagLists : SessionSendMessage(t, tags)
  \/ SessionSteps

SessionSpec == SessionInit /\ [][SessionNext]_vars

(***************************************************************************)
(* Overlapping turns.  UserInput is not disabled while a turn is in        *)
(* flight, so handleSendMessage can be called again while the first call   *)
(* is suspended at an await.  The second call is reduced to what it does   *)
(* to the shared state: setIsLoading(true) and its user Turn, then its     *)
(* reply and setIsLoading(false), each Turn appended by a functional       *)
(* setMessages update between the continuations of the first call.  The   *)
(* first call takes the inputs of a session turn.                          *)
(***************************************************************************)
OverlapTurns ==
  << Turn(UserTurnText(hostSheet, "And in B2?"), TRUE),
     Turn(<<"B2 is empty.">>, FALSE) >>

OverlappingTurnAppends ==
  /\ overlap < Len(OverlapTurns)
  /\ overlap = 0 => pc # "idle"
  /\ messages' = Append(messages, OverlapTurns[overlap + 1])
  /\ isLoading' = (overlap = 0)
  /\ overlap' = overlap + 1
  /\ UNCHANGED <<apiKey, hostSheet, activeWorksheet, switches, hostEffects, argVars,
                 embedVars, toolVars, pc, currentActiveWorksheet, requests,
                 finalResponse, thrown>>

OverlapNext ==
  \/ \E t \in UserTexts, tags \in TagLists : SendMessage(t, tags)
  \/ SessionSteps
  \/ OverlappingTurnAppends

OverlapSpec == SessionInit /\ [][OverlapNext]_vars

(***************************************************************************)
(* The embedding pre-step.  One turn with a configured key whose tag list  *)
(* has up to MaxEmbedTags entries, and an embedAllWorksheets that gets any *)
(* of the name lists below from the host and fails on any set of sheets.   *)
(***************************************************************************)
EmbedTagNames == {"Sheet1", "Sheet2", "workbook"}
EmbedTagLists == UNION {[1..n -> EmbedTagNames] : n \in 0..MaxEmbedTags}
HostNameLists == {<<"Sheet1", "Sheet2">>, <<"Sheet2", "Sheet1">>, <<"Sheet2">>}

EmbedNext ==
  \/ \E t \in UserTexts, tags \in EmbedTagLists : SendMessage(t, tags)
  \/ \E names \in HostNameLists, failed \in SUBSET Sheets : EmbedAllResolves(names, failed)
  \/ SessionSteps

EmbedSpec == SessionInit /\ [][EmbedNext]_vars

(***************************************************************************)
(* What the handler closed over.  A session of turns without tags in      *)
(* which, while a turn is in flight, the user activates another worksheet  *)
(* and a second handleSendMessage call appends its Turns.                  *)
(***************************************************************************)
ClosureNext ==
  \/ \E t \in UserTexts : SessionSendMessage(t, <<>>)
  \/ ActiveSheetResolves
  \/ \E e \in HostErrors : ActiveSheetRejects(e)
  \/ SelectionResolves
  \/ \E e \in HostErrors : SelectionRejects(e)
  \/ \E e \in GatewayErrors : Round1Rejects(e)
  \/ \E r \in SessionResponses1 : Round1Resolves(r)
  \/ \E i \in 1..Len(tasks) : ToolSettles(i, TRUE, HostError)
  \/ \E i \in 1..Len(tasks), e \in HostErrors : ToolSettles(i, FALSE, e)
  \/ \E e \in GatewayErrors : Round2Rejects(e)
  \/ \E r \in Responses2 : Round2Resolves(r)
  \/ \E s \in Sheets : HostSwitchSheet(s)
  \/ updateActiveWorksheet
  \/ OverlappingTurnAppends

ClosureSpec == SessionInit /\ [][ClosureNext]_vars

(***************************************************************************)
(* Vocabulary of the claims.                                               *)
(***************************************************************************)
\* The current turn has ended: the handler is not suspended anywhere.
TurnOver == pc = "idle" /\ turnNo > 0

\* The Turns the current turn appended to the store.
NewTurns == SubSeq(messages, base + 1, Len(messages))

AssistantCount(seq) == Cardinality({i \in 1..Len(seq) : ~seq[i].isUser})

\* The outer catch ran in this turn for a rejection at `where`.
CaughtAt(where) == thrown # <<>> /\ thrown[2] = where

IsToolMessage(m) == m.role = "tool"
ToolMessages(request) == SelectSeq(request.messages, IsToolMessage)

toolCalls == completion.tool_calls
Proposed == completion.hasToolCalls

Parses(toolCall) == JSONParse(toolCall.function.arguments).ok

\* Every content the callback of toolCall can return when it runs alone.
PossibleResults(toolCall) ==
  IF SyncStep(toolCall).state = "done"
    THEN {SyncStep(toolCall).content}
    ELSE {SettleStep(toolCall, TRUE, HostError).content}
         \cup {SettleStep(toolCall, FALSE, e).content : e \in HostErrors}

\* 'Error: <detail>', or the fixed unknown-error text.
IsErrorString(c) == c = UnknownErrorText \/ (Len(c) >= 2 /\ c[1] = "Error: ")

(***************************************************************************)
(* C1.  In every turn in which round 1 proposes invocations, the tool      *)
(* results folded back into round 2 are exactly one per proposed request,  *)
(* matched one-to-one by id.                                               *)
(***************************************************************************)
C1_OneResultPerRequest ==
  (TurnOver /\ Proposed) =>
     /\ Len(requests) = 2
     /\ LET res == ToolMessages(requests[2])
        IN /\ Len(res) = Len(toolCalls)
           /\ \A i \in 1..Len(toolCalls) :
                Cardinality({j \in 1..Len(res) : res[j].tool_call_id = toolCalls[i].id}) = 1

(***************************************************************************)
(* C2.  A request whose rawArguments fail to parse still yields exactly    *)
(* one result, an error string; the batch is not aborted and the turn      *)
(* continues to round 2.                                                   *)
(***************************************************************************)
C2_ParseFailureIsolated ==
  (TurnOver /\ Proposed /\ \E i \in 1..Len(toolCalls) : ~Parses(toolCalls[i])) =>
     /\ ~CaughtAt("parse")
     /\ Len(requests) = 2
     /\ LET res == ToolMessages(requests[2])
        IN /\ Len(res) = Len(toolCalls)
           /\ \A i \in 1..Len(toolCalls) : ~Parses(toolCalls[i]) => IsErrorString(res[i].content)

(***************************************************************************)
(* C3.  Round 2 is made if and only if round 1 proposed at least one       *)
(* invocation.                                                             *)
(***************************************************************************)
C3_Round2IffProposed ==
  TurnOver => (Len(requests) = 2 <=> (Proposed /\ Len(toolCalls) >= 1))

(***************************************************************************)
(* C4.  With an empty API key the turn appends the user Turn and the fixed *)
(* configuration-required Turn, calls neither the gateway nor the adapter, *)
(* and ends.                                                               *)
(***************************************************************************)
C4_MissingCredentialGuard ==
  (apiKey = "" /\ currentActiveWorksheet # Undefined) =>
     /\ pc = "idle"
     /\ NewTurns = <<Turn(UserTurnText(currentActiveWorksheet, text), TRUE),
                     Turn(NoKeyText, FALSE)>>
     /\ requests = <<>>
     /\ adapterCalls = 0

(***************************************************************************)
(* C5.  An invocation that names a capability of the catalog never yields  *)
(* the 'unsupported action' result.                                        *)
(***************************************************************************)
C5_CatalogNamesHandled ==
  \A i \in 1..Len(tasks) :
     (tasks[i].state = "done" /\ toolCalls[i].function.name \in CatalogNames)
        => tasks[i].content # UnsupportedText

(***************************************************************************)
(* C6.  A failure in the embedding pre-step is reported as an assistant    *)
(* Turn and the turn still proceeds to the round-1 call.                   *)
(***************************************************************************)
EmbedFailed == embedSwallowed \/ CaughtAt("embed")

EmbedFailureReported ==
  \E i \in 1..Len(NewTurns) :
     ~NewTurns[i].isUser /\ NewTurns[i].text \in {EmbedFailText, EmbedAllFailText}

C6_EmbedFailureDoesNotBlock ==
  (TurnOver /\ EmbedFailed) => (EmbedFailureReported /\ Len(requests) >= 1)

(***************************************************************************)
(* C7.  When one invocation of a batch names a capability that is not in   *)
(* the registry, its result is the fixed 'unsupported action' message, no  *)
(* error is escalated, and the other results are what they would be        *)
(* without it.                                                             *)
(***************************************************************************)
C7_UnknownNameIsolated ==
  (TurnOver /\ Proposed
     /\ \E i \in 1..Len(toolCalls) : toolCalls[i].function.name \notin CatalogNames) =>
     /\ ~CaughtAt("parse")
     /\ Len(requests) = 2
     /\ LET res == ToolMessages(requests[2])
        IN /\ Len(res) = Len(toolCalls)
           /\ \A i \in 1..Len(toolCalls) :
                /\ res[i].tool_call_id = toolCalls[i].id
                /\ IF toolCalls[i].function.name \notin CatalogNames
                     THEN res[i].content = UnsupportedText
                     ELSE res[i].content \in PossibleResults(toolCalls[i])

(***************************************************************************)
(* C8.  An invocation whose argument validation or host operation fails    *)
(* yields exactly one result, 'Error: <detail>' or the fixed unknown-error *)
(* text; every sibling yields its own result and round 2 proceeds with     *)
(* all of them.                                                            *)
(***************************************************************************)
C8_AdapterFailureIsolated ==
  (TurnOver /\ Proposed /\ \E i \in 1..Len(tasks) : tasks[i].threw) =>
     /\ Len(requests) = 2
     /\ LET res == ToolMessages(requests[2])
        IN /\ Len(res) = Len(toolCalls)
           /\ \A i \in 1..Len(toolCalls) :
                /\ res[i].tool_call_id = toolCalls[i].id
                /\ tasks[i].threw => IsErrorString(res[i].content)

(***************************************************************************)
(* C9.  After a direct round-1 reply the adapter is invoked zero times and *)
(* the reply text is appended as exactly one assistant Turn, the last of   *)
(* the turn.                                                               *)
(***************************************************************************)
DirectReply == completion.hasChoice /\ ~completion.hasToolCalls /\ completion.content # <<>>

C9_DirectReplyNoAdapter ==
  DirectReply =>
     /\ pc = "idle"
     /\ adapterCalls = 0
     /\ tasks = <<>>
     /\ Len(requests) = 1
     /\ Len(NewTurns) = notices + 2
     /\ NewTurns[Len(NewTurns)] = Turn(completion.content, FALSE)
     /\ Cardinality({i \in 1..Len(NewTurns) :
                       NewTurns[i] = Turn(completion.content, FALSE)}) = 1

C9_Witness == DirectReply /\ notices = 1 /\ ~isLoading

(***************************************************************************)
(* C10.  A failure of the round-1 call appends exactly one assistant Turn, *)
(* the error Turn, after the notices of the embedding pre-step, and no     *)
(* adapter invocation is made.  As first stated, it is the only assistant  *)
(* Turn of the turn.                                                       *)
(***************************************************************************)
C10_Round1FailureOneTurn ==
  CaughtAt("round1") =>
     /\ pc = "idle"
     /\ adapterCalls = 0
     /\ tasks = <<>>
     /\ Len(requests) = 1
     /\ AssistantCount(NewTurns) = notices + 1
     /\ Len(NewTurns) = notices + 2
     /\ NewTurns[Len(NewTurns)] = Turn(errorMessage(thrown[1]), FALSE)

C10_Witness == CaughtAt("round1") /\ notices = 1 /\ ~isLoading

C10_Original ==
  CaughtAt("round1") => (AssistantCount(NewTurns) = 1 /\ adapterCalls = 0)

(***************************************************************************)
(* C11.  Whenever a gateway call fails because the credential is rejected  *)
(* (HTTP 401), the error Turn is the invalid-credential message, and it is *)
(* that message for no other failure.                                      *)
(***************************************************************************)
GatewayFailure == CaughtAt("round1") \/ CaughtAt("round2")

C11_UnauthorizedSpecialized ==
  GatewayFailure =>
     (messages[Len(messages)] = Turn(InvalidKeyText, FALSE) <=> thrown[1].status = 401)

(***************************************************************************)
(* C12.  In a turn that has ended, the gateway was called exactly twice if *)
(* round 1 proposed tool invocations and exactly once if round 1 gave a    *)
(* direct reply.                                                           *)
(***************************************************************************)
C12_GatewayCallCount ==
  TurnOver =>
     /\ (Proposed /\ Len(toolCalls) >= 1) => Len(requests) = 2
     /\ DirectReply => Len(requests) = 1

(***************************************************************************)
(* C13.  When round 2 has been attempted, every invocation of the batch    *)
(* round 1 proposed was started and has run to completion: one callback    *)
(* per request, none in flight, none rejected, each with the result it     *)
(* returns for its request.                                                *)
(***************************************************************************)
C13_BatchCompleteBeforeRound2 ==
  Len(requests) = 2 =>
     /\ Len(tasks) = Len(toolCalls)
     /\ adapterCalls = Len(toolCalls)
     /\ \A i \in 1..Len(tasks) :
          /\ tasks[i].state = "done"
          /\ tasks[i].content \in PossibleResults(toolCalls[i])

\* Round 2 was sent after a batch of two host operations of which one
\* failed and one succeeded.
C13_Witness ==
  /\ Len(requests) = 2
  /\ Len(settled) = 2
  /\ tasks[1].threw
  /\ ~tasks[2].threw

(***************************************************************************)
(* C14.  Whatever the order in which the host operations of a batch        *)
(* settled, the tool results sent in round 2 are in the order of the       *)
(* requests, and result i carries the id of request i and a content that   *)
(* request i produced.                                                     *)
(***************************************************************************)
C14_ResultsInRequestOrder ==
  Len(requests) = 2 =>
     LET res == ToolMessages(requests[2])
     IN /\ Len(res) = Len(toolCalls)
        /\ \A i \in 1..Len(toolCalls) :
             /\ res[i].tool_call_id = toolCalls[i].id
             /\ res[i].content = tasks[i].content
             /\ res[i].content \in PossibleResults(toolCalls[i])

\* Round 2 was sent after the second request's host operation settled
\* before the first one's, with different outcomes.
C14_Witness ==
  /\ Len(requests) = 2
  /\ settled = <<2, 1>>
  /\ toolCalls[1].id # toolCalls[2].id
  /\ tasks[1].content # tasks[2].content

(***************************************************************************)
(* C15.  The transcript sent in round 2 is, in this order: the system      *)
(* instruction, one message per Turn the store held when the turn began,   *)
(* the new user message, the assistant message with the round-1 proposals, *)
(* and one tool message per proposal; nothing follows them.                *)
(***************************************************************************)
C15_Round2TranscriptOrder ==
  Len(requests) = 2 =>
     LET msgs == requests[2].messages
         k == Len(toolCalls)
     IN /\ Len(msgs) = base + 3 + k
        /\ msgs[1].role = "system"
        /\ \A i \in 1..base :
             /\ msgs[1 + i].role = (IF messages[i].isUser THEN "user" ELSE "assistant")
             /\ msgs[1 + i].content = messages[i].text
             /\ msgs[1 + i].tool_calls = <<>>
        /\ msgs[base + 2] = Message("user", <<text>>, 0, <<>>)
        /\ msgs[base + 3].role = "assistant"
        /\ msgs[base + 3].tool_calls = toolCalls
        /\ \A j \in 1..k :
             /\ msgs[base + 3 + j].role = "tool"
             /\ msgs[base + 3 + j].tool_call_id = toolCalls[j].id

\* Round 2 of a second turn, with prior Turns and one tool result.
C15_Witness ==
  /\ Len(requests) = 2
  /\ turnNo = 2
  /\ base >= 2
  /\ Len(toolCalls) = 1

(***************************************************************************)
(* C16.  A turn that ended with a gateway failure in round 1 or round 2    *)
(* leaves the handler idle with the loading flag reset; the turn after it  *)
(* starts with fresh locals and sends as round 1 the system instruction,   *)
(* the whole store as it was when that turn began, and the new text.       *)
(***************************************************************************)
GatewayErrorTurns == {Turn(errorMessage(e), FALSE) : e \in GatewayErrors}

\* The turn before the current one ended with an error Turn of the kind a
\* gateway failure produces.
PriorTurnFailed == base > 0 /\ messages[base] \in GatewayErrorTurns

C16_FailureIsTurnScoped ==
  /\ GatewayFailure => (pc = "idle" /\ ~isLoading)
  /\ (PriorTurnFailed /\ pc \in {"activeSheet", "selection", "round1"}) =>
        /\ isLoading
        /\ thrown = <<>>
        /\ tasks = <<>>
        /\ adapterCalls = 0
        /\ completion = NoCompletion
        /\ finalResponse = NoCompletion
        /\ Len(requests) = (IF pc = "round1" THEN 1 ELSE 0)
  /\ (PriorTurnFailed /\ Len(requests) >= 1) =>
        LET msgs == requests[1].messages
        IN /\ Len(msgs) = base + 2
           /\ msgs[1].role = "system"
           /\ \A i \in 1..base : msgs[1 + i].content = messages[i].text
           /\ msgs[base + 2] = Message("user", <<text>>, 0, <<>>)

\* The turn after a failed one went through round 1, the batch and round 2
\* and appended the final reply.
C16_Witness ==
  /\ PriorTurnFailed
  /\ messages[base] = Turn(InvalidKeyText, FALSE)
  /\ TurnOver
  /\ ~isLoading
  /\ thrown = <<>>
  /\ Len(requests) = 2
  /\ Len(settled) = 1
  /\ finalResponse.content # <<>>
  /\ messages[Len(messages)] = Turn(finalResponse.content, FALSE)

(***************************************************************************)
(* C17.  When the round-2 call fails, the turn stops with exactly one      *)
(* Turn describing the failure: the error Turn is appended once, as the    *)
(* last Turn, after the user Turn and the notices of the pre-step.         *)
(***************************************************************************)
C17_Round2FailureOneTurn ==
  CaughtAt("round2") =>
     /\ pc = "idle"
     /\ ~isLoading
     /\ Len(requests) = 2
     /\ Len(NewTurns) = notices + 2
     /\ AssistantCount(NewTurns) = notices + 1
     /\ NewTurns[Len(NewTurns)] = Turn(errorMessage(thrown[1]), FALSE)

C17_Witness == CaughtAt("round2") /\ notices = 1 /\ Len(toolCalls) = 2

(***************************************************************************)
(* C18.  When the round-2 call fails, every tool call of the batch has     *)
(* already completed on the host, no final reply is appended, and the      *)
(* Turn the user sees last is the error Turn.  As first stated, the turn   *)
(* ends with no new assistant Turn.                                        *)
(***************************************************************************)
C18_Round2FailureAfterSideEffects ==
  CaughtAt("round2") =>
     /\ \A i \in 1..Len(toolCalls) : tasks[i].state = "done"
     /\ \A k \in 1..Len(settled) : tasks[settled[k]].state = "done"
     /\ finalResponse = NoCompletion
     /\ ~messages[Len(messages)].isUser
     /\ messages[Len(messages)].text = errorMessage(thrown[1])

\* Round 2 failed after a host operation of the batch had succeeded.
C18_Witness ==
  /\ CaughtAt("round2")
  /\ \E k \in 1..Len(settled) : ~tasks[settled[k]].threw

C18_Original ==
  CaughtAt("round2") => AssistantCount(NewTurns) = notices

(***************************************************************************)
(* C19.  When round 2 returns a response without text content, no          *)
(* assistant Turn is appended: the turn ends with the user Turn and the    *)
(* notices of the pre-step as its only Turns.                              *)
(***************************************************************************)
Round2Returned == TurnOver /\ Len(requests) = 2 /\ thrown = <<>>

C19_NoContentNoTurn ==
  (Round2Returned /\ finalResponse.content = <<>>) =>
     /\ ~isLoading
     /\ Len(NewTurns) = notices + 1
     /\ AssistantCount(NewTurns) = notices
     /\ NewTurns[1] = Turn(UserTurnText(currentActiveWorksheet, text), TRUE)

\* Round 2 answered with a message that has no content, after a notice and
\* a settled host operation.
C19_Witness ==
  /\ Round2Returned
  /\ finalResponse.hasChoice
  /\ finalResponse.content = <<>>
  /\ notices = 1
  /\ Len(settled) >= 1

(***************************************************************************)
(* C20.  The gateway is called at most twice in a turn; when round 2       *)
(* itself proposes invocations none of them is started, and the only Turn  *)
(* appended after the batch is round 2's content, if it has any.           *)
(***************************************************************************)
C20_NoThirdRound ==
  /\ Len(requests) <= 2
  /\ (Round2Returned /\ finalResponse.hasToolCalls) =>
        /\ adapterCalls = Len(toolCalls)
        /\ Len(tasks) = Len(toolCalls)
        /\ Len(settled) <= Len(toolCalls)
        /\ IF finalResponse.content = <<>>
             THEN Len(NewTurns) = notices + 1
             ELSE /\ Len(NewTurns) = notices + 2
                  /\ NewTurns[Len(NewTurns)] = Turn(finalResponse.content, FALSE)

\* Round 2 proposed an invocation and had content, after a batch of one.
C20_Witness ==
  /\ Round2Returned
  /\ finalResponse.hasToolCalls
  /\ Len(finalResponse.tool_calls) = 1
  /\ finalResponse.content # <<>>
  /\ Len(toolCalls) = 1
  /\ Len(settled) = 1

(***************************************************************************)
(* C21.  When round 1 returns a response without a usable choice (no       *)
(* choice, or a message with neither content nor tool calls), the turn     *)
(* ends with an assistant Turn that reports the failure.                   *)
(***************************************************************************)
Round1Returned == TurnOver /\ Len(requests) >= 1 /\ ~CaughtAt("round1")

NoUsableChoice == ~completion.hasToolCalls /\ completion.content = <<>>

C21_NoUsableChoiceReported ==
  (Round1Returned /\ NoUsableChoice) =>
     /\ AssistantCount(NewTurns) = notices + 1
     /\ ~NewTurns[Len(NewTurns)].isUser

(***************************************************************************)
(* C22.  The store is append-only: in every step, whatever the turn and    *)
(* whether it appends a user Turn, a notice, a reply or an error Turn, the *)
(* store before the step is a prefix of the store after it.                *)
(***************************************************************************)
IsPrefix(a, b) == Len(a) <= Len(b) /\ SubSeq(b, 1, Len(a)) = a

C22_AppendOnly == [][IsPrefix(messages, messages')]_vars

\* A second turn that appended a notice and an error Turn after the Turns
\* of the first.
C22_Witness ==
  /\ turnNo = 2
  /\ base >= 2
  /\ notices = 1
  /\ thrown # <<>>
  /\ Len(messages) = base + 3

(***************************************************************************)
(* C23.  With a second turn's appends interleaved anywhere between the     *)
(* continuations of a turn, no append is lost or overwritten: the store    *)
(* holds the overlapping turn's Turns, whole and in the order it appended  *)
(* them, and every Turn the current turn has appended so far.              *)
(***************************************************************************)
IsOverlapTurn(m) == \E k \in 1..Len(OverlapTurns) : m = OverlapTurns[k]
IsOwnTurn(m) == ~IsOverlapTurn(m)

\* The setMessages calls the current handleSendMessage call has made.
OwnAppends ==
  (IF currentActiveWorksheet # Undefined THEN 1 ELSE 0)
  + (IF currentActiveWorksheet # Undefined /\ effectiveApiKey = "" THEN 1 ELSE 0)
  + notices
  + (IF thrown # <<>> /\ ~CaughtAt("unhandled") THEN 1 ELSE 0)
  + (IF DirectReply THEN 1 ELSE 0)
  + (IF finalResponse.content # <<>> THEN 1 ELSE 0)

C23_NoLostAppend ==
  /\ SelectSeq(messages, IsOverlapTurn) = SubSeq(OverlapTurns, 1, overlap)
  /\ Len(SelectSeq(NewTurns, IsOwnTurn)) = OwnAppends
  /\ \A i \in 1..Len(messages) : DOMAIN messages[i] = {"text", "isUser"}

\* The two Turns of the overlapping turn landed between the Turns of the
\* current one, the first of them before the current turn's user Turn.
C23_Witness ==
  /\ TurnOver
  /\ overlap = Len(OverlapTurns)
  /\ Len(NewTurns) >= 4
  /\ IsOverlapTurn(NewTurns[1])
  /\ IsOwnTurn(NewTurns[2])
  /\ IsOverlapTurn(NewTurns[3])
  /\ IsOwnTurn(NewTurns[4])

(***************************************************************************)
(* C24.  The sheet name in the system instruction of every gateway         *)
(* submission of a turn is the name read from the host at the start of     *)
(* that turn, the one that prefixes the turn's user Turn.                  *)
(***************************************************************************)
C24_SystemPromptFreshSheet ==
  \A k \in 1..Len(requests) :
     /\ requests[k].messages[1].role = "system"
     /\ requests[k].messages[1].content =
          (IF k = 1 THEN SystemPrompt1(currentActiveWorksheet)
                    ELSE SystemPrompt2(currentActiveWorksheet))

(***************************************************************************)
(* C25.  Every turn appends exactly one user Turn, the text prefixed with  *)
(* the sheet name fetched from the host in that turn; it is the first Turn *)
(* of the turn and is in the store before the embedding collaborator, the  *)
(* host's selection read, the gateway or the adapter is contacted.         *)
(***************************************************************************)
UserTurnsOf(seq) == {i \in 1..Len(seq) : seq[i].isUser}

C25_UserTurnFirst ==
  /\ TurnOver => Cardinality(UserTurnsOf(NewTurns)) = 1
  /\ (pc \in {"embed", "selection", "round1", "tools", "round2"}
        \/ notices > 0 \/ requests # <<>> \/ adapterCalls > 0) =>
        UserTurnsOf(NewTurns) = {1}
  /\ (turnNo > 0 /\ NewTurns # <<>>) =>
        NewTurns[1] = Turn(UserTurnText(currentActiveWorksheet, text), TRUE)

(***************************************************************************)
(* C26.  No capability name occurs twice in the catalog, and the catalog   *)
(* attached to every gateway submission, round 1 and round 2 of every      *)
(* turn, is the whole catalog.                                             *)
(***************************************************************************)
C26_FullCatalogEverySubmission ==
  /\ \A i, j \in 1..Len(tools) : tools[i] = tools[j] => i = j
  /\ \A k \in 1..Len(requests) :
       /\ requests[k].tools = tools
       /\ {requests[k].tools[i] : i \in 1..Len(requests[k].tools)} = CatalogNames

\* Round 2 of a second turn was sent after a batch of one call.
C26_Witness ==
  /\ turnNo = 2
  /\ Len(requests) = 2
  /\ Len(toolCalls) = 1
  /\ Len(requests[2].tools) = Len(tools)

(***************************************************************************)
(* C27.  When the host read or the analysis of a range-read or             *)
(* range-analysis invocation fails, its callback still returns: the        *)
(* failure becomes the 'Failed to ...' text of that invocation, the        *)
(* callback does not reject, and round 2 carries exactly one result for    *)
(* the request.                                                            *)
(***************************************************************************)
InlineFailurePrefixes == {"Failed to read range. ", "Failed to analyze the selected range. "}

\* The invocations of the batch whose host operation settled as a failure
\* of one of the two read-style cases.
InlineFailures ==
  {i \in 1..Len(tasks) :
     /\ toolCalls[i].function.name \in InlineCatchCases
     /\ \E k \in 1..Len(settled) : settled[k] = i
     /\ tasks[i].threw}

C27_InlineFailureIsResult ==
  \A i \in InlineFailures :
     /\ tasks[i].state = "done"
     /\ Len(tasks[i].content) = 2
     /\ tasks[i].content[1] \in InlineFailurePrefixes
     /\ thrown = <<>> \/ CaughtAt("round2")
     /\ Len(requests) = 2 =>
          LET res == ToolMessages(requests[2])
          IN /\ Cardinality({j \in 1..Len(res) : res[j].tool_call_id = toolCalls[i].id}) = 1
             /\ res[i].content = tasks[i].content

\* Both read-style operations of a batch failed on the host and round 2
\* was sent with their results.
C27_Witness ==
  /\ Len(requests) = 2
  /\ InlineFailures = {1, 2}
  /\ toolCalls[1].function.name = "analyze_selected_range"
  /\ toolCalls[2].function.name = "read_range"

(***************************************************************************)
(* C28.  No step of the loop undoes a host operation that was carried      *)
(* out: the number of operations the workbook has carried out never        *)
(* decreases, and it always covers the invocations of the current batch    *)
(* that completed successfully, whether a sibling failed, round 2 failed   *)
(* or returned nothing, or the turn ended in the outer catch.              *)
(***************************************************************************)
CompletedInvocations == {k \in 1..Len(settled) : ~tasks[settled[k]].threw}

C28_HostEffectsNotUndone ==
  [][/\ hostEffects' >= hostEffects
     /\ hostEffects' >= Cardinality(CompletedInvocations')]_vars

\* A turn ended in the outer catch after round 2 failed; of its batch one
\* invocation failed and the other's host operation stays carried out.
C28_Witness ==
  /\ CaughtAt("round2")
  /\ TurnOver
  /\ Len(toolCalls) = 2
  /\ tasks[1].threw
  /\ CompletedInvocations # {}
  /\ hostEffects = 1

(***************************************************************************)
(* C29.  A round-1 response is handled either as proposals or as a direct  *)
(* reply: when it carries tool calls its text is not appended as a Turn,   *)
(* and when it does not, nothing is dispatched to the adapter and no       *)
(* second call is made.                                                    *)
(***************************************************************************)
C29_ReplyOrProposals ==
  completion.hasChoice =>
     IF Proposed
       THEN /\ completion.content # <<>> =>
                 \A i \in 1..Len(NewTurns) : NewTurns[i] # Turn(completion.content, FALSE)
            /\ Len(tasks) = Len(toolCalls)
            /\ adapterCalls = Len(toolCalls)
            /\ AssistantCount(NewTurns) =
                 notices + (IF thrown # <<>> THEN 1 ELSE 0)
                         + (IF finalResponse.content # <<>> THEN 1 ELSE 0)
       ELSE /\ adapterCalls = 0
            /\ tasks = <<>>
            /\ settled = <<>>
            /\ Len(requests) = 1
            /\ AssistantCount(NewTurns) =
                 notices + (IF completion.content # <<>> THEN 1 ELSE 0)

\* Round 1 returned text together with a proposal; the batch ran and
\* round 2 answered.
C29_Witness ==
  /\ Proposed
  /\ completion.content # <<>>
  /\ Len(settled) >= 1
  /\ Round2Returned
  /\ finalResponse.content # <<>>

(***************************************************************************)
(* C30.  When a call of handleSendMessage has run to its end, whatever     *)
(* succeeded or failed on the way, the loading flag is reset.              *)
(***************************************************************************)
C30_EndsIdle == TurnOver => ~isLoading

(***************************************************************************)
(* C31.  When a turn has ended, no host operation that the turn started is *)
(* still in flight.                                                        *)
(***************************************************************************)
C31_NothingInFlightAtTurnEnd ==
  TurnOver => (InFlight(tasks) = {} /\ orphans = 0)

(***************************************************************************)
(* C32.  In the embedding pre-step a tag list with the whole-workbook tag  *)
(* makes exactly one call of the all-sheets embedding and none of the      *)
(* per-sheet embedding; any other tag list makes one per-sheet call per    *)
(* tagged sheet, in list order and one after the other; and no embedding   *)
(* call is still running when round 1 is contacted.                        *)
(***************************************************************************)
Invoked(calls) == [i \in DOMAIN calls |-> <<calls[i].handler, calls[i].sheetName>>]

ExpectedEmbedCalls ==
  IF Includes(taggedSheets, "workbook")
    THEN << <<"handleEmbedAllWorksheets", Undefined>> >>
    ELSE [i \in DOMAIN taggedSheets |-> <<"handleEmbedding", taggedSheets[i]>>]

PreStepOver == embedCalls # <<>> /\ pc # "embed"

C32_EmbeddingPreStep ==
  /\ IsPrefix(Invoked(embedCalls), ExpectedEmbedCalls)
  /\ \A i \in 1..(Len(embedCalls) - 1) : embedCalls[i].state # "pending"
  /\ PreStepOver => Invoked(embedCalls) = ExpectedEmbedCalls
  /\ requests # <<>> => \A i \in DOMAIN embedCalls : embedCalls[i].state # "pending"

(***************************************************************************)
(* C36.  embedAllWorksheets attempts every worksheet name the host         *)
(* returned, in the host's order, also after a sheet has failed, and the   *)
(* map it returns has an entry for exactly the sheets that did not fail.   *)
(***************************************************************************)
Succeeded(names, failed) == {names[i] : i \in {j \in 1..Len(names) : names[j] \notin failed}}

C36_EmbedAllAttemptsEverySheet ==
  embedAll.called =>
    /\ embedAll.attempted = embedAll.names
    /\ DOMAIN embedAll.embeddings = Succeeded(embedAll.names, embedAll.failed)
    /\ \A n \in DOMAIN embedAll.embeddings : embedAll.embeddings[n] = EmbeddingOf(n)

C36_Witness ==
  /\ embedAll.called
  /\ embedAll.names = <<"Sheet2", "Sheet1">>
  /\ embedAll.failed = {"Sheet2"}
  /\ embedAll.attempted = <<"Sheet2", "Sheet1">>
  /\ DOMAIN embedAll.embeddings = {"Sheet1"}

(***************************************************************************)
(* C33.  Within one turn the transcript of the round-2 request is the      *)
(* transcript of the round-1 request followed by the proposing assistant   *)
(* message and the tool results, and both system instructions name the     *)
(* same active sheet, whatever was appended to the store and whichever     *)
(* sheet was activated between the two requests.                           *)
(***************************************************************************)
Transcript(request) == Tail(request.messages)
SheetNamed(request) == request.messages[1].content[2]

C33_Round2ExtendsRound1 ==
  Len(requests) = 2 =>
    /\ Transcript(requests[2]) =
         Transcript(requests[1]) \o <<AssistantMessage(completion)>> \o ToolResults(tasks)
    /\ Transcript(requests[1]) =
         History(capturedMessages) \o <<Message("user", <<text>>, 0, <<>>)>>
    /\ SheetNamed(requests[2]) = SheetNamed(requests[1])

\* Round 2 is in flight in a later turn of the session; since round 1 was
\* sent the overlapping call has appended to the store and the cached sheet
\* name has changed.
C33_Witness ==
  /\ pc = "round2"
  /\ Len(requests) = 2
  /\ capturedMessages # <<>>
  /\ Len(messages) > round1View.store
  /\ activeWorksheet # round1View.sheet
  /\ round1View.sheet = SheetNamed(requests[1])

(***************************************************************************)
(* C34.  A turn without tagged sheets grows the store by exactly one user  *)
(* Turn and by at most one assistant Turn, however the turn ends.          *)
(***************************************************************************)
C34_OneUserTurnAtMostOneReply ==
  taggedSheets = <<>> =>
    /\ AssistantCount(NewTurns) <= 1
    /\ Cardinality(UserTurnsOf(NewTurns)) <= 1
    /\ TurnOver => Cardinality(UserTurnsOf(NewTurns)) = 1

(***************************************************************************)
(* C35.  An add_chart invocation checks the chart type before the data     *)
(* range: an invalid chart type gives the invalid-chart-type error result  *)
(* even when the data range is missing too, a valid chart type without a   *)
(* data range gives the data-range-required error result, and in both      *)
(* cases the host chart operation is not started.                          *)
(***************************************************************************)
InvalidChartTypeResult(args) == <<"Error: ", "Invalid chart type: ", args.chartType>>
DataRangeRequiredResult == <<"Error: ", "Data range is required to create a chart.">>

HostOperationStarted(i) == tasks[i].state = "inflight" \/ Includes(settled, i)

C35_ChartTypeCheckedFirst ==
  \A i \in 1..Len(tasks) :
    LET args == JSONParse(toolCalls[i].function.arguments)
    IN (toolCalls[i].function.name = "add_chart" /\ args.ok) =>
         /\ args.chartType \notin ChartType =>
              /\ tasks[i].state = "done"
              /\ tasks[i].content = InvalidChartTypeResult(args)
              /\ ~HostOperationStarted(i)
         /\ (args.chartType \in ChartType /\ args.dataRange = Undefined) =>
              /\ tasks[i].state = "done"
              /\ tasks[i].content = DataRangeRequiredResult
              /\ ~HostOperationStarted(i)

\* A batch of two add_chart calls, the first with an unknown chart type and
\* no data range, the second with a valid chart type and no data range, has
\* gone through round 2 without any host operation.
C35_Witness ==
  /\ TurnOver
  /\ Len(requests) = 2
  /\ Len(tasks) = 2
  /\ toolCalls[1].function = [name |-> "add_chart", arguments |-> ArgsChartBadType]
  /\ toolCalls[2].function = [name |-> "add_chart", arguments |-> ArgsChartNoRange]
  /\ ToolMessages(requests[2])[1].content = <<"Error: ", "Invalid chart type: ", "Donut3D">>
  /\ ToolMessages(requests[2])[2].content = DataRangeRequiredResult
  /\ hostEffects = 0

====
